---- MODULE Spec2Model ----
(***************************************************************************)
(* Verification model of the tagbuy Instagram access pool                  *)
(* (backend/app/integrations/instagram/client_pool.py) and of the callers  *)
(* that lease accounts from it.                                            *)
(*                                                                         *)
(* Time is the integer number of seconds read by time.time() and           *)
(* datetime.utcnow(); every timestamp field keeps the absolute value the   *)
(* code stores.  The pool's coroutines contain no await between their      *)
(* availability check and their usage update, so under the asyncio event   *)
(* loop each pool operation is one atomic step.                            *)
(***************************************************************************)
EXTENDS Integers, Sequences, FiniteSets, TLC

\* ---------------------------------------------------------------- bounds
\* Largest clock value explored.
MaxTime == 2400
\* Largest number of leases granted by the pool during one behaviour.
MaxGrants == 3

\* Number of tasks that ask for the global pool while it starts up.
MaxTasks == 3

\* Longest hashtag feed handed to discover_from_hashtag.
MaxFeed == 3

\* Categories of one run_full_discovery and hashtags tried per category.
MaxCategories == 2
MaxHashtags == 2

\* Largest `limit` handed to update_stale_influencers.
MaxLimit == 2

\* Largest like and comment counter of a media item.
MaxCounter == 3

\* Status checks of one content item in a row.
MaxChecks == 3

\* Longest list of ids handed to batch_check_status.
MaxBatch == 2

\* Most hashtags a campaign requires.
MaxRequired == 2

\* Most membership calls made on one pool.
MaxOps == 5

\* Largest max_influencers of a campaign.
MaxInfluencers == 2

\* ------------------------------------------------------ program constants
ErrorThreshold == 3
ErrorCooldown == 300
RateLimitCooldown == 60
DailyLimit == 1000
MinInterval == 2
DaySeconds == 86400

\* Python's None for the Optional[float] / Optional[datetime] fields.
None == -1

\* The accounts of settings.get_instagram_accounts(), in dict insertion order.
AccountList == <<"A", "B">>
Accounts == {AccountList[i] : i \in 1..Len(AccountList)}
NumAccounts == Len(AccountList)

\* Instant at which initialize() added the accounts (daily_reset_at).
T0 == 1
\* First instant of the observed behaviours: late enough for an account to
\* have served DailyLimit - 1 requests MinInterval apart since T0.
StartTime == T0 + MinInterval * DailyLimit
\* What an account may have been through when observation starts: never
\* used; DailyLimit - 1 requests served today, all reported as successes;
\* two requests served, both reported as errors.
Histories == {"fresh", "loaded", "failing"}
\* The pools observed: the first account with any history beside unused
\* ones, and a pool whose accounts all are one request short of the quota.
InitialHistories ==
    {[a \in Accounts |-> IF a = AccountList[1] THEN h ELSE "fresh"] :
        h \in Histories}
    \cup {[a \in Accounts |-> "loaded"]}

VARIABLES
    clients,        \* username -> ManagedClient record (self._clients)
    current_index,  \* self._current_index, 0-based
    now,            \* the clock
    pending,        \* username -> callers that were handed that client and
                    \* have not issued a remote call through it yet
    active,         \* username -> callers that issued a remote call through
                    \* that client and have not reported its outcome yet
    raised,         \* the last operation was a get_client that raised
                    \* NoAvailableClientError
    history,        \* username -> what the account went through before
                    \* StartTime
    rrHist,         \* accounts returned by the latest get_client calls that
                    \* found every account available
    cooldown_kind,  \* username -> which report set the cooldown in force
    errAt,          \* username -> instant of the report that began an
                    \* error cooldown less than ErrorCooldown ago (or None)
    healed,         \* username -> the cooldown timestamp has passed and no
                    \* error was reported since
    streak,         \* username -> error reports since the last success
                    \* report
    \* ---- start-up of the global pool (get_instagram_pool, initialize)
    global_pool,    \* the module-level _pool: "None" or "pool"
    initialized,    \* _pool._initialized
    members,        \* usernames that are keys of _pool._clients
    task,           \* task -> its position in get_instagram_pool/initialize
    logins,         \* username -> client.login() calls begun for it
    \* ---- one call of discover_from_hashtag
    feed,           \* medias returned by get_hashtag_medias_top
    profile,        \* user pk -> profile the platform holds for it
    catalog,        \* instagram_pk of the committed Influencer rows
    disc,           \* locals of the call and what it did so far
    \* ---- one call of run_full_discovery
    run,            \* position, stats and what happened so far
    \* ---- one call of update_stale_influencers
    rows,           \* influencer id -> its row as the session holds it
    refresh,        \* arguments and locals of the call
    \* ---- one call of check_content_status
    check,          \* what the lookup meets, and what the call makes of it
    \* ---- should_alert over the successive statuses of one content item
    watch,          \* statuses seen, and what should_alert said of each
    \* ---- one CampaignContent row under ContentService
    content,        \* the CampaignContent row and the last operation on it
    \* ---- one call of batch_check_status
    batch,          \* arguments and locals of the call, and what it met
    \* ---- one call of match_post_to_campaign
    matching,       \* a post, a campaign, and what match_post_to_campaign returns
    \* ---- CrawlerScheduler and its two tasks
    sched,          \* the scheduler, its two tasks and the catalog table they write
    \* ---- add_client, remove_client and get_client on one pool
    roster,         \* a pool whose accounts are added and removed
    \* ---- CampaignService on one campaign
    camp        \* one campaign and its participations

poolVars == <<clients, current_index, now, pending, active, raised, history, rrHist,
          cooldown_kind, errAt, healed, streak>>

\* Every variable that is not part of the account table.
otherVars == <<<<global_pool, initialized, members, task, logins>>, <<feed, profile, catalog, disc>>, run, <<rows, refresh>>, check, watch,
      content,
      batch,
      matching,
      sched,
      roster,
      camp>>

vars == <<poolVars, otherVars>>

\* What the actions of the component `c` leave alone: every variable of
\* the other components.
Frame(c) ==
    /\ UNCHANGED poolVars
    /\ IF c = "startup" THEN TRUE ELSE UNCHANGED <<global_pool, initialized, members, task, logins>>
    /\ IF c = "discover" THEN TRUE ELSE UNCHANGED <<feed, profile, catalog, disc>>
    /\ IF c = "run" THEN TRUE ELSE UNCHANGED run
    /\ IF c = "refresh" THEN TRUE ELSE UNCHANGED <<rows, refresh>>
    /\ IF c = "check" THEN TRUE ELSE UNCHANGED check
    /\ IF c = "watch" THEN TRUE ELSE UNCHANGED watch
    /\ IF c = "content" THEN TRUE ELSE UNCHANGED content
    /\ IF c = "batch" THEN TRUE ELSE UNCHANGED batch
    /\ IF c = "match" THEN TRUE ELSE UNCHANGED matching
    /\ IF c = "sched" THEN TRUE ELSE UNCHANGED sched
    /\ IF c = "roster" THEN TRUE ELSE UNCHANGED roster
    /\ IF c = "campaign" THEN TRUE ELSE UNCHANGED camp

\* ------------------------------------------------------------- helpers
\* Python truthiness of an Optional[float]: None and 0.0 are both falsy.
Truthy(x) == x # None /\ x # 0

\* timedelta.days of a non-negative difference of seconds.
Days(d) == d \div DaySeconds

\* Requests served before StartTime by an account with history h.
Served(h) == CASE h = "fresh"   -> 0
               [] h = "loaded"  -> DailyLimit - 1
               [] h = "failing" -> ErrorThreshold - 1

\* ManagedClient(client, username, daily_reset_at=utcnow()) as add_client
\* creates it at T0, after the requests and reports of history h.
ManagedClient(u, h) ==
    [ username            |-> u,
      last_request_at     |-> IF Served(h) = 0 THEN None
                              ELSE T0 + MinInterval * (Served(h) - 1),
      request_count       |-> Served(h),
      daily_request_count |-> Served(h),
      daily_reset_at      |-> T0,
      is_available        |-> TRUE,
      cooldown_until      |-> None,
      consecutive_errors  |-> IF h = "failing" THEN Served(h) ELSE 0 ]

\* `managed.cooldown_until and now < managed.cooldown_until`
InCooldown(m, t) == Truthy(m.cooldown_until) /\ t < m.cooldown_until

\* The field writes _is_client_available performs on `managed` at time t.
CheckedClient(m, t) ==
    IF InCooldown(m, t) THEN m
    ELSE LET m1 == IF Truthy(m.cooldown_until) /\ t >= m.cooldown_until
                   THEN [m EXCEPT !.cooldown_until = None,
                                  !.is_available = TRUE,
                                  !.consecutive_errors = 0]
                   ELSE m
             m2 == IF m1.daily_reset_at # None
                      /\ Days(t - m1.daily_reset_at) >= 1
                   THEN [m1 EXCEPT !.daily_request_count = 0,
                                   !.daily_reset_at = t]
                   ELSE m1
         IN  m2

\* Variant of IsClientAvailable: the quota test is `>` instead of `>=`.
IsClientAvailableQuotaOffByOne(m, t) ==
    IF InCooldown(m, t) THEN FALSE
    ELSE LET m2 == CheckedClient(m, t)
         IN  IF m2.daily_request_count > DailyLimit THEN FALSE
             ELSE IF Truthy(m2.last_request_at)
                     /\ t - m2.last_request_at < MinInterval THEN FALSE
             ELSE m2.is_available

\* Variant of IsClientAvailable: the minimum-interval test is missing.
IsClientAvailableNoInterval(m, t) ==
    IF InCooldown(m, t) THEN FALSE
    ELSE LET m2 == CheckedClient(m, t)
         IN  IF m2.daily_request_count >= DailyLimit THEN FALSE
             ELSE m2.is_available

\* The value _is_client_available returns for `managed` at time t.
IsClientAvailable(m, t) ==
    IF InCooldown(m, t) THEN FALSE
    ELSE LET m2 == CheckedClient(m, t)
         IN  IF m2.daily_request_count >= DailyLimit THEN FALSE
             ELSE IF Truthy(m2.last_request_at)
                     /\ t - m2.last_request_at < MinInterval THEN FALSE
             ELSE m2.is_available

\* _update_client_usage
UpdateClientUsage(m, t) ==
    [m EXCEPT !.last_request_at = t,
              !.request_count = @ + 1,
              !.daily_request_count = @ + 1]

\* The account at 0-based position i of list(self._clients.values()).
ClientAt(i) == AccountList[i + 1]

\* Position scanned at the k-th iteration (k = 0..) of get_client's loop.
ScanPos(k) == (current_index + k) % NumAccounts

\* Variant of Hits: the loop makes one attempt fewer than there are accounts.
HitsShort == {k \in 0..(NumAccounts - 2) :
                 IsClientAvailable(clients[ClientAt(ScanPos(k))], now)}

\* Iterations of get_client's loop whose account is available.
Hits == {k \in 0..(NumAccounts - 1) :
            IsClientAvailable(clients[ClientAt(ScanPos(k))], now)}

Min(S) == CHOOSE x \in S : \A y \in S : x <= y

\* Variant of NextIndex: the cursor is left where it was.
NextIndexStuck(i) == i

\* `self._current_index = (self._current_index + 1) % len(client_list)`
NextIndex(i) == (i + 1) % NumAccounts

\* ------------------------------------------------- observation variables
\* cooldown_kind of an account whose record became m.
KindOf(a, m) == IF m.cooldown_until = None THEN "none" ELSE cooldown_kind[a]

\* cooldown_kind of every account after the pool's table became cs.
KindsOf(cs) == [a \in Accounts |-> KindOf(a, cs[a])]

\* Leases granted since StartTime.
Granted == LET Sum[i \in 0..NumAccounts] ==
                   IF i = 0 THEN 0
                   ELSE Sum[i - 1] + clients[AccountList[i]].request_count
                                   - Served(history[AccountList[i]])
           IN  Sum[NumAccounts]

\* Last n entries of a sequence.
LastN(s, n) == IF Len(s) <= n THEN s ELSE SubSeq(s, Len(s) - n + 1, Len(s))

\* ------------------------------------------------------------------ Init
\* ------------------------------------------- the other components at rest
Tasks == 1..MaxTasks

\* A task that is not inside get_instagram_pool or initialize.
TaskAt(pc, i, entry) == [pc |-> pc, i |-> i, entry |-> entry]

\* User pks the platform knows.
Users == {"u1", "u2"}

\* Locals of discover_from_hashtag: position in the call, index of the
\* media item at hand, processed_pks, the two counters, the rows created
\* and updated in the session, profile fetches per user pk, per-candidate
\* exceptions caught, the reports made to the pool, whether the
\* session was committed, and whether the call has slept since its last
\* profile fetch. `catalog` is the table before the call.
DiscLocals(pc) ==
    [pc |-> pc, pos |-> 1, processed_pks |-> {}, new_count |-> 0,
     updated_count |-> 0, created |-> <<>>, updated |-> <<>>,
     fetches |-> [u \in Users |-> 0], failures |-> 0, reports |-> <<>>,
     committed |-> FALSE, paced |-> FALSE]

\* run_full_discovery: position in the call, index of the category and of
\* the hashtag at hand, the counters of discover_category, the stats dict,
\* and what happened: hashtags attempted, hashtags whose discovery met a
\* failure, and whether a get_client raised NoAvailableClientError.
RunLocals(pc) ==
    [pc |-> pc, cat |-> 1, tag |-> 1, total_new |-> 0, total_updated |-> 0,
     stats |-> [started_at |-> FALSE, completed_at |-> FALSE,
                categories_processed |-> 0, total_new |-> 0,
                total_updated |-> 0, errors |-> <<>>],
     attempted |-> <<>>, failed |-> {}, exhausted |-> FALSE]

\* update_stale_influencers: its two arguments, position in the call, the
\* list the query returned, index of the influencer at hand,
\* updated_count, the outcome of every turn of the loop, and the table as
\* it was when the call began.
RefreshLocals(pc, max_age_days, limit, before) ==
    [pc |-> pc, max_age_days |-> max_age_days, limit |-> limit,
     influencers |-> <<>>, pos |-> 1, updated_count |-> 0,
     outcomes |-> <<>>, before |-> before]

\* A CampaignContent row: its status, the advertiser's verdict, the number
\* of check_status calls made on it, and what the last operation on it
\* was, met on the platform, and wrote to the log and the monitoring table.
ContentRow(status, advertiser_approved, checks, op, found, emitted) ==
    [status |-> status, advertiser_approved |-> advertiser_approved,
     checks |-> checks,
     last |-> [op |-> op, found |-> found, emitted |-> emitted]]

\* batch_check_status: whether the configured accounts parse, the ids
\* handed in, position in the call, what the lookup of each id met, the
\* results list, the report made to the pool for each id, and the
\* consecutive_errors counter of the leased account.
BatchLocals(pc, config_ok, media_pks) ==
    [pc |-> pc, config_ok |-> config_ok, media_pks |-> media_pks,
     kinds |-> <<>>, results |-> <<>>, reports |-> <<>>,
     consecutive_errors |-> 0]

\* The two tasks CrawlerScheduler.start creates.
Jobs == {"daily", "weekly"}

\* Catalog rows the scheduler's tasks work on.
Rows == {"r1", "r2"}

\* Columns of a catalog row: whether the row exists, and for three of its
\* columns the snapshot its value was taken from ("old": the value before
\* the tasks ran), and sync_error.
RowOf(exists, follower_count, engagement_rate, last_synced_at, sync_error) ==
    [exists |-> exists, follower_count |-> follower_count,
     engagement_rate |-> engagement_rate,
     last_synced_at |-> last_synced_at, sync_error |-> sync_error]

\* A session with nothing to write: "-" is a column left as it is.
CleanSession ==
    [r \in Rows |-> RowOf("-", <<"-">>, <<"-">>, <<"-">>, "-")]

\* The scheduler: _running; per task whether a cancellation was requested
\* and is yet to be raised inside it, whether one was ever requested, the
\* await it is suspended at, the units of work it started, its session's
\* unflushed writes, and whether a cancellation discarded such writes; the
\* locals of update_stale_influencers, of run_full_discovery and of
\* discover_from_hashtag; the committed table.
SchedLocals(running, pc, db) ==
    [running |-> running,
     must_cancel |-> [j \in Jobs |-> FALSE],
     cancel_requested |-> [j \in Jobs |-> FALSE],
     pc |-> [j \in Jobs |-> pc],
     started |-> [j \in Jobs |-> 0],
     session |-> [j \in Jobs |-> CleanSession],
     discarded |-> [j \in Jobs |-> FALSE],
     influencers |-> <<>>, pos |-> 1,
     cat |-> 1, tag |-> 1, media |-> 1, processed_pks |-> {}, existing |-> FALSE,
     db |-> db]

\* A pool as __init__ leaves it: _clients in insertion order, the cursor,
\* the outcome of the last call and the number of calls made.
RosterLocals == [clients |-> <<>>, current_index |-> 0, last |-> "none", ops |-> 0]

Influencers == {"i1", "i2", "i3"}

\* A participation row, if the influencer applied: is_selected and
\* rejection_reason.
Participation(applied, is_selected, rejection_reason) ==
    [applied |-> applied, is_selected |-> is_selected,
     rejection_reason |-> rejection_reason]

\* A campaign row with its participations, and how the last call ended.
CampaignRow(max_influencers) ==
    [max_influencers |-> max_influencers, selected_influencers |-> 0,
     participants |-> [i \in Influencers |-> Participation(FALSE, FALSE, "None")],
     last |-> "create"]

\* Every component but `c` at rest, while `c` is studied.
AtRest(c) ==
    \* the account table with nothing handed out
    /\ IF c = "pool" THEN TRUE
       ELSE /\ history = [a \in Accounts |-> "fresh"]
            /\ clients = [a \in Accounts |-> ManagedClient(a, history[a])]
            /\ current_index = 0
            /\ now = StartTime
            /\ pending = [a \in Accounts |-> 0]
            /\ active = [a \in Accounts |-> 0]
            /\ raised = FALSE
            /\ rrHist = <<>>
            /\ cooldown_kind = [a \in Accounts |-> "none"]
            /\ errAt = [a \in Accounts |-> None]
            /\ healed = [a \in Accounts |-> FALSE]
            /\ streak = [a \in Accounts |-> 0]
    \* the global pool after a start-up in which every account logged in
    /\ IF c = "startup" THEN TRUE
       ELSE /\ global_pool = "pool"
            /\ initialized = TRUE
            /\ members = Accounts
            /\ task = [t \in Tasks |-> TaskAt("done", 0, "get_instagram_pool")]
            /\ logins = [a \in Accounts |-> 1]
    \* no discovery call
    /\ IF c = "discover" THEN TRUE
       ELSE /\ feed = <<>>
            /\ profile = <<>>
            /\ catalog = {}
            /\ disc = DiscLocals("done")
    \* no discovery run
    /\ IF c = "run" THEN TRUE
       ELSE run = RunLocals("returned")
    \* no refresh call
    /\ IF c = "refresh" THEN TRUE
       ELSE /\ rows = <<>>
            /\ refresh = RefreshLocals("done", 0, 0, <<>>)
    \* no content check
    /\ IF c = "check" THEN TRUE
       ELSE check = [pc |-> "idle"]
    \* no content item under watch
    /\ IF c = "watch" THEN TRUE
       ELSE watch = [seen |-> <<>>, alerted |-> <<>>]
    \* the content as submit_content stores it
    /\ IF c = "content" THEN TRUE
       ELSE content = ContentRow("pending", "None", 0, "submit_content",
                                 "none", {})
    \* no batch
    /\ IF c = "batch" THEN TRUE
       ELSE batch = BatchLocals("returned", TRUE, <<>>)
    \* no post being matched
    /\ IF c = "match" THEN TRUE
       ELSE matching = [pc |-> "idle"]
    \* no scheduler running
    /\ IF c = "sched" THEN TRUE
       ELSE sched = SchedLocals(FALSE, "cancelled",
                        [r \in Rows |-> RowOf("yes", <<"old">>, <<"old">>, <<"old">>, "old")])
    \* a pool as __init__ leaves it
    /\ IF c = "roster" THEN TRUE
       ELSE roster = RosterLocals
    \* no campaign
    /\ IF c = "campaign" THEN TRUE
       ELSE camp = CampaignRow(0)

Init ==
    /\ AtRest("pool")
    /\ history \in InitialHistories
    /\ clients = [a \in Accounts |-> ManagedClient(a, history[a])]
    /\ current_index = 0
    /\ now = StartTime
    /\ pending = [a \in Accounts |-> 0]
    /\ active = [a \in Accounts |-> 0]
    /\ raised = FALSE
    /\ rrHist = <<>>
    /\ cooldown_kind = [a \in Accounts |-> "none"]
    /\ errAt = [a \in Accounts |-> None]
    /\ healed = [a \in Accounts |-> FALSE]
    /\ streak = [a \in Accounts |-> clients[a].consecutive_errors]

\* --------------------------------------------------------------- actions
\* get_client, when the scan finds an available account.
GetClientGranted ==
    /\ Hits # {}
    /\ Granted < MaxGrants
    /\ LET k       == Min(Hits)
           chosen  == ClientAt(ScanPos(k))
           scanned == {ClientAt(ScanPos(j)) : j \in 0..k}
           cs      == [a \in Accounts |->
                         IF a = chosen
                         THEN UpdateClientUsage(CheckedClient(clients[a], now), now)
                         ELSE IF a \in scanned
                         THEN CheckedClient(clients[a], now)
                         ELSE clients[a]]
       IN  /\ clients' = cs
           /\ current_index' = NextIndex(ScanPos(k))
           /\ pending' = [pending EXCEPT ![chosen] = @ + 1]
           /\ rrHist' = IF Cardinality(Hits) = NumAccounts
                        THEN LastN(Append(rrHist, chosen), NumAccounts)
                        ELSE <<>>
           /\ cooldown_kind' = KindsOf(cs)
    /\ raised' = FALSE
    /\ UNCHANGED <<otherVars, now, active, history, errAt, healed, streak>>

\* get_client, when the scan finds no available account:
\* raise NoAvailableClientError().
GetClientExhausted ==
    /\ Hits = {}
    /\ LET cs == [a \in Accounts |-> CheckedClient(clients[a], now)]
       IN  /\ clients' = cs
           /\ cooldown_kind' = KindsOf(cs)
    /\ current_index' = (current_index + NumAccounts) % NumAccounts
    /\ raised' = TRUE
    /\ rrHist' = <<>>
    /\ UNCHANGED <<otherVars, now, pending, active, history, errAt, healed, streak>>

\* get_specific_client(username)
GetSpecificClient(u) ==
    /\ LET avail == IsClientAvailable(clients[u], now)
           m     == CheckedClient(clients[u], now)
           cs    == [clients EXCEPT ![u] = IF avail THEN UpdateClientUsage(m, now)
                                           ELSE m]
       IN  /\ avail => Granted < MaxGrants
           /\ clients' = cs
           /\ pending' = [pending EXCEPT ![u] = IF avail THEN @ + 1 ELSE @]
           /\ cooldown_kind' = KindsOf(cs)
    /\ raised' = FALSE
    /\ UNCHANGED <<otherVars, current_index, now, active, history, rrHist, errAt, healed,
                   streak>>

\* A caller issues its first remote call through the client it was handed
\* (client.get_hashtag_medias_top, get_user_info, get_media_info, ...);
\* the caller does not consult the pool again before calling.
RemoteCall(u) ==
    /\ pending[u] > 0
    /\ pending' = [pending EXCEPT ![u] = @ - 1]
    /\ active' = [active EXCEPT ![u] = @ + 1]
    /\ raised' = FALSE
    /\ UNCHANGED <<otherVars, clients, current_index, now, history, rrHist, cooldown_kind,
                   errAt, healed, streak>>

\* mark_client_error(username), called from the except clause of a caller
\* whose remote call failed.
MarkClientError(u) ==
    /\ active[u] > 0
    /\ LET n     == clients[u].consecutive_errors + 1
           trips == n >= ErrorThreshold
       IN  /\ clients' = [clients EXCEPT ![u] =
                   IF trips
                   THEN [@ EXCEPT !.consecutive_errors = n,
                                  !.cooldown_until = now + ErrorCooldown,
                                  !.is_available = FALSE]
                   ELSE [@ EXCEPT !.consecutive_errors = n]]
           /\ cooldown_kind' = [cooldown_kind EXCEPT ![u] =
                   IF trips THEN "error" ELSE @]
           /\ errAt' = [errAt EXCEPT ![u] =
                   IF trips /\ @ = None THEN now ELSE @]
    /\ active' = [active EXCEPT ![u] = @ - 1]
    /\ healed' = [healed EXCEPT ![u] = FALSE]
    /\ streak' = [streak EXCEPT ![u] = @ + 1]
    /\ raised' = FALSE
    /\ UNCHANGED <<otherVars, current_index, now, pending, history, rrHist>>

\* Variant of MarkClientSuccess: the report also lifts the cooldown.
MarkClientSuccessReinstates(u) ==
    /\ active[u] > 0
    /\ clients' = [clients EXCEPT ![u].consecutive_errors = 0,
                                  ![u].cooldown_until = None,
                                  ![u].is_available = TRUE]
    /\ active' = [active EXCEPT ![u] = @ - 1]
    /\ streak' = [streak EXCEPT ![u] = 0]
    /\ raised' = FALSE
    /\ UNCHANGED <<otherVars, current_index, now, pending, history, rrHist, cooldown_kind,
                   errAt, healed>>

\* mark_client_success(username), called by a caller whose remote calls
\* succeeded.
MarkClientSuccess(u) ==
    /\ active[u] > 0
    /\ clients' = [clients EXCEPT ![u].consecutive_errors = 0]
    /\ active' = [active EXCEPT ![u] = @ - 1]
    /\ streak' = [streak EXCEPT ![u] = 0]
    /\ raised' = FALSE
    /\ UNCHANGED <<otherVars, current_index, now, pending, history, rrHist, cooldown_kind,
                   errAt, healed>>

\* mark_client_rate_limited(username), called by a caller whose remote call
\* was answered with a rate-limit signal.
MarkClientRateLimited(u) ==
    /\ active[u] > 0
    /\ clients' = [clients EXCEPT ![u].cooldown_until = now + RateLimitCooldown,
                                  ![u].is_available = FALSE]
    /\ cooldown_kind' = [cooldown_kind EXCEPT ![u] = "rate"]
    /\ active' = [active EXCEPT ![u] = @ - 1]
    /\ healed' = [healed EXCEPT ![u] = FALSE]
    /\ raised' = FALSE
    /\ UNCHANGED <<otherVars, current_index, now, pending, history, rrHist, errAt, streak>>

\* get_pool_status: available_clients and the per-client entries both call
\* _is_client_available on every account.
GetPoolStatus ==
    /\ LET cs == [a \in Accounts |-> CheckedClient(clients[a], now)]
       IN  /\ clients' = cs
           /\ cooldown_kind' = KindsOf(cs)
    /\ raised' = FALSE
    /\ UNCHANGED <<otherVars, current_index, now, pending, active, history, rrHist, errAt,
                   healed, streak>>

\* Instants at which the value of some guard of the pool changes.
Deadlines ==
    {clients[a].cooldown_until : a \in {c \in Accounts :
                                    clients[c].cooldown_until # None}}
    \cup {clients[a].last_request_at + MinInterval :
             a \in {c \in Accounts : clients[c].last_request_at # None}}
    \cup {clients[a].daily_reset_at + DaySeconds : a \in Accounts}

\* The clock advances to such an instant; between two of them every
\* operation of the pool behaves the same.
Tick ==
    /\ \E t \in Deadlines :
          /\ t > now
          /\ t <= MaxTime
          /\ now' = t
          /\ errAt' = [a \in Accounts |->
                IF errAt[a] # None /\ t >= errAt[a] + ErrorCooldown
                THEN None ELSE errAt[a]]
          /\ healed' = [a \in Accounts |->
                IF Truthy(clients[a].cooldown_until)
                   /\ now < clients[a].cooldown_until
                   /\ t >= clients[a].cooldown_until
                THEN TRUE ELSE healed[a]]
    /\ raised' = FALSE
    /\ UNCHANGED <<otherVars, clients, current_index, pending, active, history, rrHist,
                   cooldown_kind, streak>>

Next ==
    \/ GetClientGranted
    \/ GetClientExhausted
    \/ \E u \in Accounts : GetSpecificClient(u)
    \/ \E u \in Accounts : RemoteCall(u)
    \/ \E u \in Accounts : MarkClientError(u)
    \/ \E u \in Accounts : MarkClientSuccess(u)
    \/ \E u \in Accounts : MarkClientRateLimited(u)
    \/ GetPoolStatus
    \/ Tick

Spec == Init /\ [][Next]_vars

\* ======================================================================
\* Properties of the access pool
\* ======================================================================

\* The pool handed the account out in this step.
GrantedIn(a) == clients'[a].request_count = clients[a].request_count + 1

\* C1: round robin.  Any NumAccounts consecutive get_client calls that each
\* found every account available returned pairwise distinct accounts: no
\* account is returned a second time before every other one was returned.
C1_RoundRobin ==
    \A i, j \in 1..Len(rrHist) : i # j => rrHist[i] # rrHist[j]

\* NumAccounts consecutive get_client calls found every account available.
C1_Witness == Len(rrHist) = NumAccounts

\* C2: once the third consecutive error was reported for an account, no
\* get_client or get_specific_client call returns that account until
\* ErrorCooldown seconds have elapsed since that report, whatever other
\* pool operations happen in between.
C2_NoGrantDuringErrorCooldown ==
    \A a \in Accounts :
        errAt[a] # None =>
            \/ ~Truthy(clients[a].last_request_at)
            \/ clients[a].last_request_at <= errAt[a]

\* C3: mark_client_rate_limited never changes the end of an error cooldown
\* in progress, and mark_client_error never changes the end of a rate-limit
\* window in progress.
C3_IndependentWindows ==
    [][\A u \in Accounts :
        /\ (MarkClientRateLimited(u) /\ cooldown_kind[u] = "error"
               /\ InCooldown(clients[u], now))
           => clients'[u].cooldown_until = clients[u].cooldown_until
        /\ (MarkClientError(u) /\ cooldown_kind[u] = "rate"
               /\ InCooldown(clients[u], now))
           => clients'[u].cooldown_until = clients[u].cooldown_until]_vars

C5_QuotaNeverExceeded ==
    \A a \in Accounts :
        /\ clients[a].daily_request_count <= DailyLimit
        /\ pending[a] + active[a]
              <= clients[a].request_count - Served(history[a])
        /\ clients[a].daily_reset_at = T0
              => clients[a].daily_request_count = clients[a].request_count

\* An account that had one request left was handed out, reached the quota
\* and is still held by that one caller.
C5_Witness ==
    \E a \in Accounts :
        /\ history[a] = "loaded"
        /\ clients[a].daily_request_count = DailyLimit
        /\ pending[a] + active[a] = 1

\* C6: whenever the pool hands out an account, at least MinInterval seconds
\* have elapsed since it last handed out that account.
C6_MinimumSpacing ==
    [][\A a \in Accounts :
        GrantedIn(a) =>
            \/ ~Truthy(clients[a].last_request_at)
            \/ now - clients[a].last_request_at >= MinInterval]_vars

\* An account was handed out twice since StartTime.
C6_Witness ==
    \E a \in Accounts :
        clients[a].request_count - Served(history[a]) >= 2

\* C7: once the cooldown timestamp of an account has passed, a single
\* further mark_client_error does not put the account back in cooldown.
C7_SelfHealing ==
    [][\A u \in Accounts :
        (MarkClientError(u) /\ healed[u])
            => ~InCooldown(clients'[u], now)]_vars

\* C8: mark_client_error calls received for an account that is in error
\* cooldown do not push the end of the cooldown later.
C8_FixedDuration ==
    [][\A u \in Accounts :
        (MarkClientError(u) /\ cooldown_kind[u] = "error"
           /\ InCooldown(clients[u], now))
            => clients'[u].cooldown_until <= clients[u].cooldown_until]_vars

\* C9: no remote call is issued through an account that is in cooldown,
\* also not by a caller that was handed the account before the cooldown
\* began.
C9_NoCallDuringCooldown ==
    [][\A u \in Accounts :
        RemoteCall(u) => ~InCooldown(clients[u], now)]_vars

\* C10: mark_client_success sets consecutive_errors to 0 and changes no
\* other field of any account and not the cursor; reported during a
\* cooldown it leaves the account unavailable; and mark_client_error starts
\* a cooldown only with at least ErrorThreshold error reports since the
\* last success report.
C10_SuccessOnlyResetsCounter ==
    [][\A u \in Accounts :
        /\ MarkClientSuccess(u) =>
              /\ clients' = [clients EXCEPT ![u].consecutive_errors = 0]
              /\ current_index' = current_index
              /\ InCooldown(clients[u], now)
                    => ~IsClientAvailable(clients'[u], now)
        /\ (MarkClientError(u)
               /\ clients'[u].cooldown_until # clients[u].cooldown_until)
              => streak'[u] >= ErrorThreshold]_vars

\* A success was reported for an account in error cooldown: the cooldown
\* is still running and the counter is 0.
C10_Witness ==
    \E a \in Accounts :
        /\ InCooldown(clients[a], now)
        /\ cooldown_kind[a] = "error"
        /\ clients[a].consecutive_errors = 0
        /\ streak[a] = 0

\* C11: get_pool_status is a read-only snapshot: it changes no field of
\* any account and it does not move the cursor.
C11_StatusReadOnly ==
    [][GetPoolStatus =>
          (clients' = clients /\ current_index' = current_index)]_vars

\* Module import: _pool is None, no task has asked for the pool.
StartupInit ==
    /\ AtRest("startup")
    /\ global_pool = "None"
    /\ initialized = FALSE
    /\ members = {}
    /\ task = [t \in Tasks |-> TaskAt("idle", 0, "none")]
    /\ logins = [a \in Accounts |-> 0]

\* Positions from `from` on in settings.get_instagram_accounts() whose
\* add_client does not return at the `username in self._clients` test.
ToLogin(from, mem) ==
    {j \in from..NumAccounts : AccountList[j] \notin mem}

\* The loop of initialize from position `from`, run up to the next
\* suspension: add_client returns at once for a username that is in the
\* table, suspends in client.login() otherwise; when the loop ends
\* _initialized is set and the call returns.
RunInitialize(t, entry, from, mem) ==
    IF ToLogin(from, mem) = {}
    THEN /\ initialized' = TRUE
         /\ task' = [task EXCEPT ![t] = TaskAt("done", 0, entry)]
         /\ logins' = logins
    ELSE LET j == Min(ToLogin(from, mem))
         IN  /\ initialized' = initialized
             /\ task' = [task EXCEPT ![t] = TaskAt("login", j, entry)]
             /\ logins' = [logins EXCEPT ![AccountList[j]] = @ + 1]

\* initialize() from its first line.
EnterInitialize(t, entry) ==
    IF initialized
    THEN /\ task' = [task EXCEPT ![t] = TaskAt("done", 0, entry)]
         /\ UNCHANGED <<initialized, logins>>
    ELSE RunInitialize(t, entry, 1, members)

\* A task calls get_instagram_pool().
GetInstagramPool(t) ==
    /\ task[t].pc = "idle"
    /\ IF global_pool = "None"
       THEN /\ global_pool' = "pool"
            /\ EnterInitialize(t, "get_instagram_pool")
       ELSE /\ task' = [task EXCEPT
                           ![t] = TaskAt("done", 0, "get_instagram_pool")]
            /\ UNCHANGED <<global_pool, initialized, logins>>
    /\ Frame("startup")
    /\ UNCHANGED <<members>>

\* A task calls initialize() on the global pool directly.
Initialize(t) ==
    /\ task[t].pc = "idle"
    /\ global_pool = "pool"
    /\ EnterInitialize(t, "initialize")
    /\ Frame("startup")
    /\ UNCHANGED <<global_pool, members>>

\* client.login() of a suspended add_client returns or raises; add_client
\* stores the account on success, and the loop of initialize goes on.
LoginReturns(t) ==
    /\ task[t].pc = "login"
    /\ \E ok \in BOOLEAN :
          LET mem == IF ok THEN members \cup {AccountList[task[t].i]}
                     ELSE members
          IN  /\ members' = mem
              /\ RunInitialize(t, task[t].entry, task[t].i + 1, mem)
    /\ Frame("startup")
    /\ UNCHANGED <<global_pool>>

StartupNext ==
    \/ \E t \in Tasks : GetInstagramPool(t)
    \/ \E t \in Tasks : Initialize(t)
    \/ \E t \in Tasks : LoginReturns(t)

StartupSpec == StartupInit /\ [][StartupNext]_vars

\* C12: a task that get_instagram_pool has returned the pool to finds that
\* a login was begun for every configured account, so every account is
\* authenticated before its first lease.
C12_AuthenticatedBeforeUse ==
    \A t \in Tasks :
        (task[t].pc = "done" /\ task[t].entry = "get_instagram_pool")
            => \A a \in Accounts : logins[a] >= 1

\* ------------------------------------------------ discover_from_hashtag
MinFollowers == 1000
MinMedia == 10

\* Profiles around the thresholds of MINIMUM_REQUIREMENTS.
Profiles ==
    {[follower_count |-> MinFollowers, media_count |-> MinMedia,
      is_private |-> FALSE],
     [follower_count |-> MinFollowers - 1, media_count |-> MinMedia,
      is_private |-> FALSE],
     [follower_count |-> MinFollowers, media_count |-> MinMedia - 1,
      is_private |-> FALSE],
     [follower_count |-> MinFollowers, media_count |-> MinMedia,
      is_private |-> TRUE]}

\* A media item of the feed: the account that posted it, and whether its
\* pk is written "mediapk_userpk" or is the bare media pk.
Medias == [owner : Users, pk_has_owner : BOOLEAN]

Feeds == UNION {[1..n -> Medias] : n \in 0..MaxFeed}

\* str(media.pk).split("_")
MediaIdParts(media) ==
    IF media.pk_has_owner THEN <<"m", media.owner>> ELSE <<"m">>

MeetsRequirements(user_info) ==
    /\ ~(user_info.follower_count < MinFollowers)
    /\ ~(user_info.media_count < MinMedia)
    /\ ~user_info.is_private

DiscoverInit ==
    /\ AtRest("discover")
    /\ feed \in Feeds
    /\ profile \in [Users -> Profiles]
    /\ catalog \in SUBSET Users
    /\ disc = DiscLocals("start")

\* get_instagram_pool, get_client and get_hashtag_medias_top. get_client
\* raising leaves the call through its caller; the feed call raising is
\* caught by the outer handler, which reports the error and rolls back.
DiscoverStart ==
    /\ disc.pc = "start"
    /\ \E outcome \in {"ok", "no_client", "feed_error"} :
          disc' = CASE outcome = "ok" -> [disc EXCEPT !.pc = "loop"]
                    [] outcome = "no_client" -> [disc EXCEPT !.pc = "raised"]
                    [] outcome = "feed_error" ->
                          [disc EXCEPT !.pc = "done",
                                       !.reports = Append(@, "error")]
    /\ Frame("discover")
    /\ UNCHANGED <<feed, profile, catalog>>

\* The inner handler: the exception is logged and the loop goes on.
CandidateFailed(d) ==
    [d EXCEPT !.failures = @ + 1, !.pos = @ + 1]

\* One turn of the loop over medias; `fail` names the call that raises
\* in this turn, if any.
ProcessMedia ==
    /\ disc.pc = "loop"
    /\ disc.pos <= Len(feed)
    /\ \E fail \in {"none", "get_media_info", "get_user_info_by_pk",
                    "catalog"} :
          LET media_id_parts == MediaIdParts(feed[disc.pos])
              user_pk == media_id_parts[2]
              skip    == [disc EXCEPT !.pos = @ + 1]
              slept   == [skip EXCEPT !.paced = TRUE]
              seen    == [disc EXCEPT !.processed_pks = @ \cup {user_pk},
                                      !.fetches[user_pk] = @ + 1,
                                      !.paced = FALSE]
              user_info == profile[user_pk]
          IN  IF fail = "get_media_info"
              THEN disc' = CandidateFailed(disc)
              ELSE IF Len(media_id_parts) < 2
              THEN fail = "none" /\ disc' = slept
              ELSE IF user_pk \in disc.processed_pks
              THEN fail = "none" /\ disc' = skip
              ELSE IF fail = "get_user_info_by_pk"
              THEN disc' = CandidateFailed(seen)
              ELSE IF ~MeetsRequirements(user_info)
              THEN fail = "none" /\ disc' = [seen EXCEPT !.pos = @ + 1]
              ELSE IF fail = "catalog"
              THEN disc' = CandidateFailed(seen)
              ELSE IF user_pk \in catalog
              THEN disc' = [seen EXCEPT !.updated = Append(@, user_pk),
                                        !.updated_count = @ + 1,
                                        !.pos = @ + 1, !.paced = TRUE]
              ELSE disc' = [seen EXCEPT !.created = Append(@, user_pk),
                                        !.new_count = @ + 1,
                                        !.pos = @ + 1, !.paced = TRUE]
    /\ Frame("discover")
    /\ UNCHANGED <<feed, profile, catalog>>

Range(s) == {s[i] : i \in 1..Len(s)}

\* After the loop: commit and mark_client_success, or the commit raises
\* and the outer handler reports the error and rolls back.
DiscoverFinish ==
    /\ disc.pc = "loop"
    /\ disc.pos > Len(feed)
    /\ \E commit_ok \in BOOLEAN :
          disc' = IF commit_ok
                  THEN [disc EXCEPT !.pc = "done", !.committed = TRUE,
                                    !.reports = Append(@, "success")]
                  ELSE [disc EXCEPT !.pc = "done",
                                    !.reports = Append(@, "error")]
    /\ Frame("discover")
    /\ UNCHANGED <<feed, profile, catalog>>

DiscoverNext == DiscoverStart \/ ProcessMedia \/ DiscoverFinish

DiscoverSpec == DiscoverInit /\ [][DiscoverNext]_vars

\* Accounts the media items of the feed were posted by.
Candidates == {feed[i].owner : i \in 1..Len(feed)}

\* The call went through without any exception.
DiscoverClean ==
    /\ disc.pc = "done"
    /\ disc.failures = 0
    /\ disc.reports = <<"success">>

\* C13: a call that met no exception returns as new_count the number of
\* distinct accounts of the feed that pass the minimum-requirements filter
\* and were not in the catalog, and created one record for each.
C13_NewCountIsQualifyingCandidates ==
    DiscoverClean =>
        LET new == {u \in Candidates :
                       MeetsRequirements(profile[u]) /\ u \notin catalog}
        IN  /\ disc.new_count = Cardinality(new)
            /\ Range(disc.created) = new

\* C14: every exception caught while one candidate is processed is
\* reported to the pool with mark_client_error for the account used.
C14_CandidateFailureReported ==
    [][(ProcessMedia /\ disc'.failures > disc.failures)
          => disc'.reports = Append(disc.reports, "error")]_vars

\* C25: between every two consecutive profile fetches of one call there is
\* a pacing delay, whatever path the loop took after the earlier fetch.
C25_PacedBetweenFetches ==
    [][LET \* profile fetches made so far in the call
           ProfileFetches(d) ==
               Cardinality({u \in Users : d.fetches[u] > 0})
       IN  (ProcessMedia /\ ProfileFetches(disc) > 0
                /\ ProfileFetches(disc') > ProfileFetches(disc))
              => disc.paced]_vars

\* --------------------------------------------------- run_full_discovery
RunInit ==
    /\ AtRest("run")
    /\ run = RunLocals("start")

\* The stats dict is built and the first category is entered.
RunStart ==
    /\ run.pc = "start"
    /\ run' = [run EXCEPT !.pc = "category", !.stats.started_at = TRUE]
    /\ Frame("run")

\* What one discover_from_hashtag call does, seen from its caller: it
\* returns its two counters, also when the feed call or the commit raised
\* inside it, and it raises when get_client raises.
HashtagOutcomes ==
    [kind : {"ok", "feed_error", "commit_error"}, new : 0..1,
     updated : 0..1]
       \cup [kind : {"no_client"}, new : {0}, updated : {0}]

\* One turn of the loop of discover_category. A raising call is logged
\* by the handler of discover_category, and the loop goes on.
DiscoverHashtag ==
    /\ run.pc = "category"
    /\ run.cat <= MaxCategories
    /\ run.tag <= MaxHashtags
    /\ \E o \in HashtagOutcomes :
          /\ o.kind = "feed_error" => (o.new = 0 /\ o.updated = 0)
          /\ run' = [run EXCEPT
                !.attempted = Append(@, <<run.cat, run.tag>>),
                !.failed = IF o.kind = "ok" THEN @
                           ELSE @ \cup {<<run.cat, run.tag>>},
                !.exhausted = @ \/ o.kind = "no_client",
                !.total_new = @ + o.new,
                !.total_updated = @ + o.updated,
                !.tag = @ + 1]
    /\ Frame("run")

\* discover_category returns its totals; run_full_discovery adds them to
\* the stats and goes to the next category.
CategoryReturns ==
    /\ run.pc = "category"
    /\ run.cat <= MaxCategories
    /\ run.tag > MaxHashtags
    /\ run' = [run EXCEPT
          !.stats.total_new = @ + run.total_new,
          !.stats.total_updated = @ + run.total_updated,
          !.stats.categories_processed = @ + 1,
          !.total_new = 0, !.total_updated = 0,
          !.cat = @ + 1, !.tag = 1]
    /\ Frame("run")

\* After the last category the report is completed and returned.
RunReturns ==
    /\ run.pc = "category"
    /\ run.cat > MaxCategories
    /\ run' = [run EXCEPT !.pc = "returned", !.stats.completed_at = TRUE]
    /\ Frame("run")

RunNext == RunStart \/ DiscoverHashtag \/ CategoryReturns \/ RunReturns

RunSpec == RunInit /\ [][RunNext]_vars

\* C15: the report run_full_discovery returns has an entry in its errors
\* list for every category in which a hashtag met a failure.
C15_FailuresInReport ==
    (run.pc = "returned" /\ run.stats.started_at)
        => \A f \in run.failed :
              \E i \in 1..Len(run.stats.errors) : run.stats.errors[i] = f[1]

\* C16: once a get_client has raised NoAvailableClientError, no further
\* hashtag is attempted in the run.
C16_AbortsOnExhaustion ==
    [][DiscoverHashtag => ~run.exhausted]_vars

\* --------------------------------------------- update_stale_influencers
Entities == {"e1", "e2", "e3"}

\* datetime.utcnow() during the call, in days.
RefreshNow == 10

\* InfluencerTier.from_follower_count
FromFollowerCount(count) ==
    IF count < 10000 THEN "nano"
    ELSE IF count < 100000 THEN "micro"
    ELSE IF count < 1000000 THEN "macro"
    ELSE "mega"

\* Rows before the call: never synced, or synced at some day up to the
\* staleness threshold; with or without an error of an earlier call.
InitialRows ==
    [last_synced_at : {None} \cup (RefreshNow - 9)..(RefreshNow - 7),
     follower_count : {5000}, tier : {"nano"},
     sync_error : {"None", "old error"}]

\* The WHERE clause: last_synced_at < stale_threshold OR it IS NULL. A
\* comparison with NULL is not true in SQL.
IsStaleInclusive(row, stale_threshold) ==
    \/ row.last_synced_at # None /\ row.last_synced_at <= stale_threshold
    \/ row.last_synced_at = None

IsStale(row, stale_threshold) ==
    \/ row.last_synced_at # None /\ row.last_synced_at < stale_threshold
    \/ row.last_synced_at = None

\* ORDER BY last_synced_at ASC NULLS FIRST: a may come before b.
NullsFirstAsc(a, b) == a = None \/ (b # None /\ a <= b)

\* The lists the query may return: the first `limit` stale rows in that
\* order; rows with equal keys come in any order.
StaleQuery(rs, stale_threshold, limit) ==
    LET stale == {e \in Entities : IsStale(rs[e], stale_threshold)}
        n     == IF Cardinality(stale) < limit THEN Cardinality(stale)
                 ELSE limit
    IN  {q \in [1..n -> stale] :
            /\ \A i, j \in 1..n : i < j =>
                  /\ q[i] # q[j]
                  /\ NullsFirstAsc(rs[q[i]].last_synced_at,
                                   rs[q[j]].last_synced_at)
            /\ \A e \in stale \ {q[i] : i \in 1..n} :
                  \A i \in 1..n :
                      NullsFirstAsc(rs[q[i]].last_synced_at,
                                    rs[e].last_synced_at)}

RefreshInit ==
    /\ AtRest("refresh")
    /\ rows \in [Entities -> InitialRows]
    /\ \E max_age_days \in 6..7, limit \in 1..MaxLimit :
          refresh = RefreshLocals("start", max_age_days, limit, rows)

\* The query is executed.
RefreshSelect ==
    /\ refresh.pc = "start"
    /\ \E q \in StaleQuery(rows, RefreshNow - refresh.max_age_days,
                           refresh.limit) :
          refresh' = [refresh EXCEPT !.pc = "loop", !.influencers = q]
    /\ Frame("refresh")
    /\ UNCHANGED <<rows>>

\* The handler of the loop: only sync_error is written.
RefreshFailedKeepsStamp(row, e) ==
    [row EXCEPT !.sync_error = e, !.last_synced_at = RefreshNow]

RefreshFailed(row, e) == [row EXCEPT !.sync_error = e]

\* One turn of the loop: both service calls return and the row is
\* overwritten, or one of them raises before any field is assigned.
RefreshEntity ==
    /\ refresh.pc = "loop"
    /\ refresh.pos <= Len(refresh.influencers)
    /\ LET influencer == refresh.influencers[refresh.pos]
       IN  \/ \E follower_count \in {5000, 20000} :
                /\ rows' = [rows EXCEPT ![influencer] =
                      [last_synced_at |-> RefreshNow,
                       follower_count |-> follower_count,
                       tier |-> FromFollowerCount(follower_count),
                       sync_error |-> "None"]]
                /\ refresh' = [refresh EXCEPT
                      !.updated_count = @ + 1,
                      !.outcomes = Append(@, "ok"),
                      !.pos = @ + 1]
           \/ \E e \in {"get_user_info", "calculate_engagement_rate"} :
                /\ rows' = [rows EXCEPT
                               ![influencer] = RefreshFailed(@, e)]
                /\ refresh' = [refresh EXCEPT
                      !.outcomes = Append(@, e),
                      !.pos = @ + 1]
    /\ Frame("refresh")

\* After the loop the session is committed and the count returned; a
\* commit that raises leaves the call through its caller.
RefreshCommit ==
    /\ refresh.pc = "loop"
    /\ refresh.pos > Len(refresh.influencers)
    /\ \E commit_ok \in BOOLEAN :
          refresh' = [refresh EXCEPT
                         !.pc = IF commit_ok THEN "done" ELSE "raised"]
    /\ Frame("refresh")
    /\ UNCHANGED <<rows>>

RefreshNext == RefreshSelect \/ RefreshEntity \/ RefreshCommit

RefreshSpec == RefreshInit /\ [][RefreshNext]_vars

\* Influencers the loop has gone through, in order.
Processed == SubSeq(refresh.influencers, 1, Len(refresh.outcomes))

\* C17: the influencers of one call are pairwise distinct, at most `limit`,
\* each was never synced or was synced more than max_age_days before the
\* call, they come in ascending last_synced_at order with the never-synced
\* ones first, and the loop takes them in that order, each once.
C17_StaleOrderOnce ==
    LET q  == refresh.influencers
        th == RefreshNow - refresh.max_age_days
    IN  refresh.pc \in {"loop", "done", "raised"} =>
          /\ Len(q) <= refresh.limit
          /\ \A i \in 1..Len(q) :
                LET at == refresh.before[q[i]].last_synced_at
                IN  at = None \/ RefreshNow - at > refresh.max_age_days
          /\ \A i, j \in 1..Len(q) : i < j =>
                /\ q[i] # q[j]
                /\ LET a == refresh.before[q[i]].last_synced_at
                       b == refresh.before[q[j]].last_synced_at
                   IN  a = None \/ (b # None /\ a <= b)
          /\ Len(refresh.outcomes) = refresh.pos - 1
          /\ refresh.pos <= Len(q) + 1
          /\ refresh.pc \in {"done", "raised"} => Processed = q

\* A call with limit 2 went through a never-synced influencer and then a
\* synced one, and left out an influencer synced exactly max_age_days ago.
C17_Witness ==
    /\ refresh.pc = "done"
    /\ Len(refresh.influencers) = 2
    /\ refresh.before[refresh.influencers[1]].last_synced_at = None
    /\ refresh.before[refresh.influencers[2]].last_synced_at # None
    /\ \E e \in Entities :
          refresh.before[e].last_synced_at
              = RefreshNow - refresh.max_age_days

\* C18: a turn of the loop that failed wrote the error text to sync_error
\* of its influencer and left the other fields as they were; a turn that
\* succeeded set last_synced_at, cleared sync_error and set the tier of
\* the new follower count; rows outside the turns are untouched; the call
\* raises only after the loop went through every influencer; and
\* updated_count is the number of turns that succeeded.
C18_FailureStoredSuccessApplied ==
    /\ \A i \in 1..Len(refresh.outcomes) :
          LET e   == refresh.influencers[i]
              old == refresh.before[e]
          IN  IF refresh.outcomes[i] = "ok"
              THEN /\ rows[e].last_synced_at = RefreshNow
                   /\ rows[e].sync_error = "None"
                   /\ rows[e].tier = FromFollowerCount(rows[e].follower_count)
              ELSE rows[e] = [old EXCEPT !.sync_error = refresh.outcomes[i]]
    /\ \A e \in DOMAIN rows :
          (\A i \in 1..Len(refresh.outcomes) : refresh.influencers[i] # e)
              => rows[e] = refresh.before[e]
    /\ refresh.updated_count =
          Cardinality({i \in 1..Len(refresh.outcomes) :
                          refresh.outcomes[i] = "ok"})
    /\ refresh.pc = "raised"
          => Len(refresh.outcomes) = Len(refresh.influencers)

\* A call saw one refresh fail and a later one succeed with a follower
\* count of another tier, on a row that carried an earlier error.
C18_Witness ==
    /\ refresh.pc = "done"
    /\ Len(refresh.outcomes) = 2
    /\ refresh.outcomes[1] # "ok"
    /\ refresh.outcomes[2] = "ok"
    /\ refresh.before[refresh.influencers[2]].sync_error = "old error"
    /\ rows[refresh.influencers[2]].tier = "micro"
    /\ refresh.updated_count = 1

\* ------------------------------------------------- check_content_status
\* Exceptions of the platform library that handle_instagram_errors tells
\* apart; "Exception" is any other one.
LibraryErrors ==
    {"MediaNotFound", "UserNotFound", "RateLimitError",
     "PleaseWaitFewMinutes", "ChallengeRequired", "LoginRequired",
     "ClientLoginRequired", "BadPassword", "PrivateError", "ClientError",
     "Exception"}

\* Texts a library exception may carry, as lists of words.
Texts ==
    {<<"timeout">>, <<"media", "unavailable">>,
     <<"Private", "relay", "failed">>,
     <<"checkpoint:", "PRIVATE", "info", "required">>}

\* What the lookup meets: the media with its counters, no account to
\* lease, or an exception of the library.
Lookups ==
    [kind : {"Media"}, like_count : 0..MaxCounter,
     comment_count : 0..MaxCounter, text : {<<>>}]
       \cup [kind : {"NoAvailableClientError"}, like_count : {0},
             comment_count : {0}, text : {<<>>}]
       \cup [kind : LibraryErrors, like_count : {0}, comment_count : {0},
             text : Texts]

\* An exception as the application sees it: its class and str(e).
Raised(type, message) == [type |-> type, message |-> message]

\* The decorator of InstagramClient.get_media_info.
HandleInstagramErrors(kind, text) ==
    CASE kind = "UserNotFound" ->
           Raised("InstagramAccountNotFoundError",
                  <<"Instagram", "account", "not", "found:">> \o text)
      [] kind = "MediaNotFound" ->
           Raised("InstagramMediaNotFoundError",
                  <<"Instagram", "media", "not", "found:">> \o text)
      [] kind \in {"RateLimitError", "PleaseWaitFewMinutes"} ->
           Raised("RateLimitExceededError",
                  <<"Instagram", "rate", "limit", "exceeded.", "Please",
                    "try", "again", "later.">>)
      [] kind = "ChallengeRequired" ->
           Raised("InstagramChallengeRequiredError",
                  <<"Instagram", "security", "challenge", "required">>)
      [] kind \in {"LoginRequired", "ClientLoginRequired"} ->
           Raised("InstagramError", <<"Instagram", "login", "required">>)
      [] kind = "BadPassword" ->
           Raised("InstagramError",
                  <<"Invalid", "Instagram", "credentials">>)
      [] kind = "PrivateError" ->
           Raised("InstagramError",
                  <<"Cannot", "access", "private", "account">>)
      [] kind = "ClientError" ->
           Raised("InstagramError",
                  <<"Instagram", "API", "error:">> \o text)
      [] OTHER ->
           Raised("InstagramError", <<"Unexpected", "error:">> \o text)

\* What InstagramMediaService.get_media_info raises for a lookup that
\* does not return the media.
MediaServiceRaises(l) ==
    IF l.kind = "NoAvailableClientError"
    THEN Raised("NoAvailableClientError",
                <<"No", "available", "Instagram", "client.", "All",
                  "clients", "are", "in", "cooldown.">>)
    ELSE HandleInstagramErrors(l.kind, l.text)

\* str.lower() of one word.
Lower(word) ==
    CASE word \in {"Private", "PRIVATE"} -> "private"
      [] word = "Instagram" -> "instagram"
      [] word = "API" -> "api"
      [] OTHER -> word

\* "private" in error_msg.lower()
MentionsPrivate(message) ==
    \E i \in 1..Len(message) : Lower(message[i]) = "private"

MonitoringResult(status, exists, is_public, likes, comments, error) ==
    [status |-> status, exists |-> exists, is_public |-> is_public,
     current_likes |-> likes, current_comments |-> comments,
     error_message |-> error]

\* check_content_status, from the outcome of get_media_info on.
CheckContentStatusResult(l) ==
    IF l.kind = "Media"
    THEN MonitoringResult("active", TRUE, TRUE, l.like_count,
                          l.comment_count, "None")
    ELSE IF MediaServiceRaises(l).type = "InstagramMediaNotFoundError"
    THEN MonitoringResult("deleted", FALSE, FALSE, 0, 0,
                          "Content not found (possibly deleted)")
    ELSE IF MentionsPrivate(MediaServiceRaises(l).message)
    THEN MonitoringResult("private", TRUE, FALSE, 0, 0,
                          "Content is now private")
    ELSE MonitoringResult("active", TRUE, FALSE, 0, 0,
                          "Error checking content")

CheckInit ==
    /\ AtRest("check")
    /\ \E l \in Lookups : check = [pc |-> "called", lookup |-> l]

\* The call returns its MonitoringResult.
CheckContentStatus ==
    /\ check.pc = "called"
    /\ check' = [pc |-> "returned", lookup |-> check.lookup,
                 result |-> CheckContentStatusResult(check.lookup)]
    /\ Frame("check")

CheckNext == CheckContentStatus

CheckSpec == CheckInit /\ [][CheckNext]_vars

\* C19: check_content_status returns deleted for a media-not-found error
\* and for nothing else, private for a private-account error, active with
\* the counters of the media for a successful lookup, and for every other
\* failure a result with status active and an error message.
C19_StatusMapping ==
    check.pc = "returned" =>
        LET kind == check.lookup.kind
            res  == check.result
        IN  /\ res.status = "deleted" <=> kind = "MediaNotFound"
            /\ kind = "PrivateError" => res.status = "private"
            /\ kind = "Media" =>
                  /\ res.status = "active"
                  /\ res.current_likes = check.lookup.like_count
                  /\ res.current_comments = check.lookup.comment_count
            /\ kind \notin {"Media", "MediaNotFound", "PrivateError"} =>
                  /\ res.status = "active"
                  /\ res.error_message # "None"

\* ------------------------------------------------------- should_alert
\* The values of the ContentStatus enumeration.
ContentStatus ==
    {"pending", "active", "deleted", "private", "rejected", "approved"}

ShouldAlertIgnoresPrevious(previous_status, current_status) ==
    LET alert_statuses == {"deleted", "private"}
    IN  IF current_status \in alert_statuses THEN TRUE ELSE FALSE

ShouldAlert(previous_status, current_status) ==
    LET alert_statuses == {"deleted", "private"}
    IN  IF current_status \in alert_statuses
             /\ previous_status \notin alert_statuses
        THEN TRUE
        ELSE FALSE

WatchInit ==
    /\ AtRest("watch")
    /\ \E s \in ContentStatus : watch = [seen |-> <<s>>, alerted |-> <<>>]

\* A check finds the content in some status, and should_alert is asked
\* with the status of the check before.
Observe ==
    /\ Len(watch.seen) <= MaxChecks
    /\ \E current_status \in ContentStatus :
          watch' = [seen |-> Append(watch.seen, current_status),
                    alerted |-> Append(watch.alerted,
                        ShouldAlert(watch.seen[Len(watch.seen)],
                                    current_status))]
    /\ Frame("watch")

WatchNext == Observe

WatchSpec == WatchInit /\ [][WatchNext]_vars

\* C20: should_alert is true exactly for a step from a status outside
\* {deleted, private} to a status inside it; so it is true for (active,
\* deleted) and false for (deleted, deleted), (deleted, private) and
\* (deleted, active); and between two alerts of a sequence of checks the
\* content was seen outside {deleted, private}.
C20_AlertOnEntryOnly ==
    LET gone == {"deleted", "private"}
        n    == Len(watch.alerted)
    IN  /\ \A i \in 1..n :
              watch.alerted[i] <=>
                  (watch.seen[i + 1] \in gone /\ watch.seen[i] \notin gone)
        /\ \A i, j \in 1..n :
              (i < j /\ watch.alerted[i] /\ watch.alerted[j])
                  => \E k \in (i + 1)..j : watch.seen[k] \notin gone
        /\ ShouldAlert("active", "deleted")
        /\ ~ShouldAlert("deleted", "deleted")
        /\ ~ShouldAlert("deleted", "private")
        /\ ~ShouldAlert("deleted", "active")

\* The content was deleted (alert), stayed in the set as private (no
\* alert), and came back active (no alert).
C20_Witness ==
    /\ watch.seen = <<"active", "deleted", "private", "active">>
    /\ watch.alerted = <<TRUE, FALSE, FALSE>>

\* ---------------------------------------------- ContentService.check_status
ContentInit ==
    /\ AtRest("content")
    /\ content = ContentRow("pending", "None", 0, "submit_content", "none", {})

\* check_status: the stored status is replaced by the status of the
\* monitoring result whenever the two differ; the change is written to the
\* application log, and every check adds a MonitoringLog row.
CheckStatus ==
    /\ content.checks < MaxChecks
    /\ \E l \in Lookups :
          LET result  == CheckContentStatusResult(l)
              changed == result.status # content.status
          IN  content' = ContentRow(
                  IF changed THEN result.status ELSE content.status,
                  content.advertiser_approved,
                  content.checks + 1,
                  "check_status",
                  l.kind,
                  IF changed THEN {"log: status changed", "MonitoringLog"}
                  ELSE {"MonitoringLog"})
    /\ Frame("content")

\* approve_content
ApproveContent ==
    /\ content' = ContentRow("approved", "approved", content.checks,
                             "approve_content", "none", {"log: approved"})
    /\ Frame("content")

\* reject_content
RejectContent ==
    /\ content' = ContentRow("rejected", "rejected", content.checks,
                             "reject_content", "none", {"log: rejected"})
    /\ Frame("content")

ContentNext == CheckStatus \/ ApproveContent \/ RejectContent

ContentSpec == ContentInit /\ [][ContentNext]_vars

\* C21: a check_status that finds a content stored as deleted or private
\* to be in another status replaces the stored status only together with
\* a re-discovery event of its own.
C21_TerminalUntilSignalled ==
    [][(CheckStatus /\ content.status \in {"deleted", "private"}
           /\ content'.status \notin {"deleted", "private"})
          => "re-discovery event" \in content'.last.emitted]_vars

\* C29: a check_status that finds the post present on the platform leaves
\* a stored status of pending, approved or rejected as it is.
C29_ReviewStatusKept ==
    [][(CheckStatus
           /\ content.status \in {"pending", "approved", "rejected"}
           /\ content'.last.found = "Media")
          => content'.status = content.status]_vars

BatchInit ==
    /\ AtRest("batch")
    /\ \E config_ok \in BOOLEAN, n \in 0..MaxBatch :
          \E media_pks \in [1..n -> {"p1", "p2"}] :
              batch = BatchLocals("loop", config_ok, media_pks)

\* What one check_content_status call of the batch meets. The service is
\* built at the first call: when the configured accounts do not validate,
\* get_instagram_pool raises out of it, before the try of
\* check_content_status, and leaves an empty global pool behind, so that
\* every later call finds no account to lease.
BatchLookups ==
    IF batch.config_ok THEN Lookups
    ELSE IF batch.kinds = <<>>
    THEN {[kind |-> "ValidationError", like_count |-> 0,
           comment_count |-> 0, text |-> <<>>]}
    ELSE {l \in Lookups : l.kind = "NoAvailableClientError"}

\* What InstagramMediaService.get_media_info reports to the pool for the
\* account it leased.
MediaServiceReport(l) ==
    CASE l.kind = "Media" -> "mark_client_success"
      [] l.kind \in {"NoAvailableClientError", "ValidationError"} -> "none"
      [] OTHER -> "mark_client_error"

\* The handler of batch_check_status.
BatchCaughtDropped(media_pk) == <<>>

BatchCaught(media_pk) ==
    <<[media_pk |-> media_pk,
       result |-> MonitoringResult("active", TRUE, FALSE, 0, 0,
                                   "Batch check error")]>>

\* One turn of the loop of batch_check_status.
BatchCheckOne ==
    /\ batch.pc = "loop"
    /\ Len(batch.kinds) < Len(batch.media_pks)
    /\ \E l \in BatchLookups :
          LET media_pk == batch.media_pks[Len(batch.kinds) + 1]
              report   == MediaServiceReport(l)
          IN  batch' = [batch EXCEPT
                !.kinds = Append(@, l.kind),
                !.results =
                    IF l.kind = "ValidationError"
                    THEN @ \o BatchCaught(media_pk)
                    ELSE Append(@, [media_pk |-> media_pk,
                                    result |-> CheckContentStatusResult(l)]),
                !.reports = Append(@, report),
                !.consecutive_errors =
                    CASE report = "mark_client_error" -> @ + 1
                      [] report = "mark_client_success" -> 0
                      [] OTHER -> @]
    /\ Frame("batch")

\* The results list is returned.
BatchReturn ==
    /\ batch.pc = "loop"
    /\ Len(batch.kinds) = Len(batch.media_pks)
    /\ batch' = [batch EXCEPT !.pc = "returned"]
    /\ Frame("batch")

BatchNext == BatchCheckOne \/ BatchReturn

BatchSpec == BatchInit /\ [][BatchNext]_vars

\* C22: the results list holds one result for each id the loop went
\* through, in the order of the ids; an exception that left
\* check_content_status became a result with status active and an error
\* message; and the list that is returned has a result for every id.
C22_OneResultPerId ==
    /\ Len(batch.results) = Len(batch.kinds)
    /\ Len(batch.results) <= Len(batch.media_pks)
    /\ \A i \in 1..Len(batch.results) :
          /\ batch.results[i].media_pk = batch.media_pks[i]
          /\ batch.kinds[i] = "ValidationError" =>
                /\ batch.results[i].result.status = "active"
                /\ batch.results[i].result.error_message # "None"
    /\ batch.pc = "returned"
          => Len(batch.results) = Len(batch.media_pks)

\* A batch of two ids was returned whose first check raised.
C22_Witness ==
    /\ batch.pc = "returned"
    /\ batch.kinds = <<"ValidationError", "NoAvailableClientError">>
    /\ Len(batch.results) = 2
    /\ batch.results[2].result.error_message = "Error checking content"

\* C24: a lookup that fails with the rate-limit error is reported to the
\* pool with mark_client_rate_limited.
C24_RateLimitReported ==
    [][(BatchCheckOne
           /\ batch'.kinds[Len(batch'.kinds)]
                 \in {"RateLimitError", "PleaseWaitFewMinutes"})
          => batch'.reports[Len(batch'.reports)]
                 = "mark_client_rate_limited"]_vars

\* C28: a lookup that ends with media-not-found does not increment the
\* consecutive_errors counter of the leased account.
C28_NotFoundIsNoAccountError ==
    [][(BatchCheckOne
           /\ batch'.kinds[Len(batch'.kinds)] = "MediaNotFound")
          => batch'.consecutive_errors <= batch.consecutive_errors]_vars

\* ------------------------------------------------ match_post_to_campaign
\* str.lower() of a hashtag or of one dot-free part of an account name.
LowerName(n) ==
    CASE n = "Ad" -> "ad"
      [] n = "Brand" -> "brand"
      [] OTHER -> n

\* A post: the hashtags and the mentions of its caption (an account name
\* is the list of its parts between dots), its media type and taken_at, an
\* aware datetime given by what its clock shows, in hours, and its UTC
\* offset.
Posts ==
    [hashtags : SUBSET {"Ad", "sale"},
     mentions : SUBSET {<<"brand">>, <<"Brand", "official">>},
     media_type : {1, 2, 5},
     taken_at : {<<>>} \cup [clock : {10, 20}, utcoffset : {0, 9}]]

\* A campaign: the hashtags and mentions it requires, spelled with or
\* without "#" and "@" and in either case, its content type and period.
Campaigns ==
    [required_hashtags :
         UNION {[1..n -> {[hash |-> TRUE, name |-> "Ad"],
                          [hash |-> FALSE, name |-> "sale"]}] :
                   n \in 0..MaxRequired},
     required_mentions :
         UNION {[1..n -> {[at |-> FALSE, name |-> <<"brand">>],
                          [at |-> TRUE, name |-> <<"brand", "official">>]}] :
                   n \in 0..1},
     content_type : {"None", "any", "photo", "video"},
     start_date : {<<>>} \cup [clock : {12}, utcoffset : {0}],
     end_date : {<<>>} \cup [clock : {18}, utcoffset : {0, 9}]]

\* MEDIA_TYPE_MAP.get(post.media_type, "unknown")
ActualType(media_type) ==
    CASE media_type = 1 -> "photo"
      [] media_type = 2 -> "video"
      [] media_type = 8 -> "album"
      [] OTHER -> "unknown"

\* The dict match_post_to_campaign returns; the score is the fraction
\* num / den.
MatchPostToCampaign(post, campaign) ==
    LET hs == campaign.required_hashtags
        ms == campaign.required_mentions
        \* set(re.findall(r'#(\w+)', caption_lower))
        caption_hashtags == {LowerName(h) : h \in post.hashtags}
        \* set(re.findall(r'@(\w+)', caption_lower)): \w+ ends at a dot
        caption_mentions == {LowerName(m[1]) : m \in post.mentions}
        \* tag.lower().replace("#", "") is among the hashtags found
        HFound(tag) == LowerName(tag.name) \in caption_hashtags
        \* mention.lower().replace("@", ""), dots kept, is among the
        \* mentions found
        MFound(mention) ==
            /\ Len(mention.name) = 1
            /\ LowerName(mention.name[1]) \in caption_mentions
        found_h == Cardinality({i \in 1..Len(hs) : HFound(hs[i])})
        found_m == Cardinality({i \in 1..Len(ms) : MFound(ms[i])})
        required_type == campaign.content_type
        type_match == \/ required_type = "None"
                      \/ required_type = ActualType(post.media_type)
                      \/ required_type = "any"
        \* dt.replace(tzinfo=None): the clock value, without its offset
        Naive(dt) == dt.clock
        posted_within ==
            IF post.taken_at = <<>> THEN FALSE
            ELSE /\ ~(campaign.start_date # <<>>
                        /\ Naive(post.taken_at) < Naive(campaign.start_date))
                 /\ ~(campaign.end_date # <<>>
                        /\ Naive(post.taken_at) > Naive(campaign.end_date))
        dh == IF Len(hs) = 0 THEN 1 ELSE Len(hs)
        dm == IF Len(ms) = 0 THEN 1 ELSE Len(ms)
        \* each score, times dh * dm
        s1 == IF Len(hs) = 0 THEN <<>> ELSE <<found_h * 100 * dm>>
        s2 == IF Len(ms) = 0 THEN <<>> ELSE <<found_m * 100 * dh>>
        s3 == IF required_type = "None" THEN <<>>
              ELSE <<(IF type_match THEN 100 ELSE 0) * dh * dm>>
        s4 == IF campaign.start_date = <<>> /\ campaign.end_date = <<>>
              THEN <<>>
              ELSE <<(IF posted_within THEN 100 ELSE 0) * dh * dm>>
        scores == s1 \o s2 \o s3 \o s4
        Sum[i \in 0..Len(scores)] ==
            IF i = 0 THEN 0 ELSE Sum[i - 1] + scores[i]
    IN  [is_match |-> /\ found_h = Len(hs)
                      /\ found_m = Len(ms)
                      /\ type_match
                      /\ posted_within,
         score |-> IF Len(scores) = 0 THEN [num |-> 100, den |-> 1]
                   ELSE [num |-> Sum[Len(scores)],
                         den |-> Len(scores) * dh * dm],
         missing_hashtags |-> Len(hs) - found_h,
         missing_mentions |-> Len(ms) - found_m,
         type_match |-> type_match,
         posted_within_period |-> posted_within]

MatchInit ==
    /\ AtRest("match")
    /\ \E post \in Posts, campaign \in Campaigns :
          matching = [pc |-> "called", post |-> post, campaign |-> campaign]

\* The call returns.
MatchPost ==
    /\ matching.pc = "called"
    /\ matching' = [pc |-> "returned", post |-> matching.post,
                    campaign |-> matching.campaign,
                    result |-> MatchPostToCampaign(matching.post,
                                                   matching.campaign)]
    /\ Frame("match")

MatchNext == MatchPost

MatchSpec == MatchInit /\ [][MatchNext]_vars

\* C23: is_match is true exactly when every required hashtag is a hashtag
\* of the caption (whatever the case), every required mention is a mention
\* of the caption, the content type matches or none or "any" is required,
\* and the post was taken inside the campaign period; and the score lies
\* between 0 and 100.
C23_MatchExactly ==
    matching.pc = "returned" =>
        LET post == matching.post
            campaign == matching.campaign
            res == matching.result
            hs == campaign.required_hashtags
            ms == campaign.required_mentions
            \* the instant an aware datetime stands for, in hours UTC
            Instant(dt) == dt.clock - dt.utcoffset
        IN  /\ res.is_match <=>
                  /\ \A i \in 1..Len(hs) :
                        \E h \in post.hashtags :
                            LowerName(h) = LowerName(hs[i].name)
                  /\ \A i \in 1..Len(ms) :
                        \E m \in post.mentions :
                            /\ Len(m) = Len(ms[i].name)
                            /\ \A k \in 1..Len(m) :
                                  LowerName(m[k]) = LowerName(ms[i].name[k])
                  /\ \/ campaign.content_type \in {"None", "any"}
                     \/ campaign.content_type = ActualType(post.media_type)
                  /\ post.taken_at # <<>>
                  /\ campaign.start_date # <<>> =>
                        Instant(post.taken_at) >= Instant(campaign.start_date)
                  /\ campaign.end_date # <<>> =>
                        Instant(post.taken_at) <= Instant(campaign.end_date)
            /\ 0 <= res.score.num
            /\ res.score.num <= 100 * res.score.den

\* ----------------------------------------------------- CrawlerScheduler
\* The media items of every hashtag feed, by the row of their owner.
SchedFeed == <<"r1", "r2">>

\* `except Exception`: CancelledError derives from BaseException.
ExceptionCatchesCancelled(exc) == TRUE
ExceptionCatches(exc) == exc # "CancelledError"

\* After start(): both tasks sleep until their hour.
SchedInit ==
    /\ AtRest("sched")
    /\ \E second \in {"yes", "no"} :
          sched = SchedLocals(TRUE, "wait",
                      [r \in Rows |->
                          RowOf(IF r = "r1" THEN "yes" ELSE second,
                                <<"old">>, <<"old">>, <<"old">>, "old")])

\* The task `j` is resumed by the call it awaits, not by a cancellation.
Resumed(j, pc) ==
    /\ sched.pc[j] = pc
    /\ ~sched.must_cancel[j]

\* The table after a commit of the session: the written columns.
Committed(db, session) ==
    [r \in Rows |->
        RowOf(IF session[r].exists = "-" THEN db[r].exists
              ELSE session[r].exists,
              IF session[r].follower_count = <<"-">>
              THEN db[r].follower_count ELSE session[r].follower_count,
              IF session[r].engagement_rate = <<"-">>
              THEN db[r].engagement_rate ELSE session[r].engagement_rate,
              IF session[r].last_synced_at = <<"-">>
              THEN db[r].last_synced_at ELSE session[r].last_synced_at,
              IF session[r].sync_error = "-" THEN db[r].sync_error
              ELSE session[r].sync_error)]

\* update_stale_influencers goes on to the next influencer, or to the
\* commit after the last one.
NextInfluencer(s) ==
    IF s.pos < Len(s.influencers)
    THEN [s EXCEPT !.pos = @ + 1, !.pc["weekly"] = "get_user_info",
                   !.started["weekly"] = @ + 1]
    ELSE [s EXCEPT !.pc["weekly"] = "commit"]

\* The handler of update_stale_influencers: sync_error is set.
InfluencerFailed(s) ==
    NextInfluencer(
        [s EXCEPT !.session["weekly"][s.influencers[s.pos]].sync_error =
                      "error"])

\* _weekly_update_loop wakes up, run_weekly_update opens a session and
\* update_stale_influencers sends its query.
WeeklyWake ==
    /\ Resumed("weekly", "wait")
    /\ sched.running
    /\ sched' = [sched EXCEPT !.pc["weekly"] = "select"]
    /\ Frame("sched")

\* The query returns the rows to refresh.
WeeklySelect ==
    /\ Resumed("weekly", "select")
    /\ LET found == IF sched.db["r2"].exists = "yes" THEN <<"r1", "r2">>
                    ELSE <<"r1">>
       IN  sched' = [sched EXCEPT !.influencers = found, !.pos = 1,
                                  !.pc["weekly"] = "get_user_info",
                                  !.started["weekly"] = @ + 1]
    /\ Frame("sched")

\* get_user_info returns or raises.
WeeklyUserInfo ==
    /\ Resumed("weekly", "get_user_info")
    /\ \E raises \in BOOLEAN :
          sched' = IF raises THEN InfluencerFailed(sched)
                   ELSE [sched EXCEPT
                            !.pc["weekly"] = "calculate_engagement_rate"]
    /\ Frame("sched")

\* calculate_engagement_rate returns, the record is assigned and the task
\* sleeps; or the call raises.
WeeklyEngagement ==
    /\ Resumed("weekly", "calculate_engagement_rate")
    /\ \E raises \in BOOLEAN :
          sched' = IF raises THEN InfluencerFailed(sched)
                   ELSE [sched EXCEPT
                            !.session["weekly"][sched.influencers[sched.pos]] =
                                RowOf("-", <<"weekly">>, <<"weekly">>,
                                      <<"weekly">>, "None"),
                            !.pc["weekly"] = "sleep"]
    /\ Frame("sched")

\* asyncio.sleep(3) is over.
WeeklySleep ==
    /\ Resumed("weekly", "sleep")
    /\ sched' = NextInfluencer(sched)
    /\ Frame("sched")

\* The commit returns; the loop sleeps until the next week.
WeeklyCommit ==
    /\ Resumed("weekly", "commit")
    /\ sched' = [sched EXCEPT
                    !.db = Committed(@, sched.session["weekly"]),
                    !.session["weekly"] = CleanSession,
                    !.pc["weekly"] = "done"]
    /\ Frame("sched")

\* discover_from_hashtag goes on to the next media item, or to the commit
\* after the last one.
NextMedia(s) ==
    IF s.media < Len(SchedFeed)
    THEN [s EXCEPT !.media = @ + 1, !.pc["daily"] = "get_media_info",
                   !.started["daily"] = @ + 1]
    ELSE [s EXCEPT !.pc["daily"] = "commit"]

\* _daily_discovery_loop wakes up; run_full_discovery reaches the feed call
\* of its first hashtag.
DailyWake ==
    /\ Resumed("daily", "wait")
    /\ sched.running
    /\ sched' = [sched EXCEPT !.pc["daily"] = "get_hashtag_medias_top",
                              !.cat = 1, !.tag = 1]
    /\ Frame("sched")

\* The feed call returns.
DailyFeed ==
    /\ Resumed("daily", "get_hashtag_medias_top")
    /\ sched' = [sched EXCEPT !.media = 1, !.processed_pks = {},
                              !.pc["daily"] = "get_media_info",
                              !.started["daily"] = @ + 1]
    /\ Frame("sched")

\* get_media_info returns.
DailyMediaInfo ==
    /\ Resumed("daily", "get_media_info")
    /\ LET user_pk == SchedFeed[sched.media]
       IN  sched' = IF user_pk \in sched.processed_pks
                    THEN NextMedia(sched)
                    ELSE [sched EXCEPT
                             !.processed_pks = @ \cup {user_pk},
                             !.pc["daily"] = "get_user_info_by_pk"]
    /\ Frame("sched")

\* get_user_info_by_pk returns a profile that meets the requirements or
\* not, or raises.
DailyUserInfo ==
    /\ Resumed("daily", "get_user_info_by_pk")
    /\ \E outcome \in {"meets", "filtered", "raises"} :
          sched' = IF outcome = "meets"
                   THEN [sched EXCEPT
                            !.pc["daily"] = "_get_by_instagram_pk"]
                   ELSE NextMedia(sched)
    /\ Frame("sched")

\* _get_by_instagram_pk returns; the row is updated or created in the
\* session and the task sleeps.
DailyExisting ==
    /\ Resumed("daily", "_get_by_instagram_pk")
    /\ LET r == SchedFeed[sched.media]
           existing == sched.db[r].exists = "yes"
           snapshot == <<"daily", sched.cat, sched.tag>>
       IN  sched' = [sched EXCEPT
                        !.existing = existing,
                        !.session["daily"][r] =
                            IF existing
                            THEN RowOf("-", snapshot, <<"-">>, snapshot,
                                       "None")
                            ELSE RowOf("yes", snapshot, <<"-">>, snapshot,
                                       "-"),
                        !.pc["daily"] = "sleep"]
    /\ Frame("sched")

\* asyncio.sleep(3) is over.
DailySleep ==
    /\ Resumed("daily", "sleep")
    /\ sched' = NextMedia(sched)
    /\ Frame("sched")

\* The commit of discover_from_hashtag returns; discover_category sleeps.
DailyCommit ==
    /\ Resumed("daily", "commit")
    /\ sched' = [sched EXCEPT
                    !.db = Committed(@, sched.session["daily"]),
                    !.session["daily"] = CleanSession,
                    !.pc["daily"] = "sleep_hashtag"]
    /\ Frame("sched")

\* asyncio.sleep(10) is over: the next hashtag, or the category is done.
DailySleepHashtag ==
    /\ Resumed("daily", "sleep_hashtag")
    /\ sched' = IF sched.tag < MaxHashtags
                THEN [sched EXCEPT !.tag = @ + 1,
                                   !.pc["daily"] = "get_hashtag_medias_top"]
                ELSE [sched EXCEPT !.pc["daily"] = "sleep_category"]
    /\ Frame("sched")

\* asyncio.sleep(30) is over: the next category, or the run is done and
\* the loop sleeps until the next day.
DailySleepCategory ==
    /\ Resumed("daily", "sleep_category")
    /\ sched' = IF sched.cat < MaxCategories
                THEN [sched EXCEPT !.cat = @ + 1, !.tag = 1,
                                   !.pc["daily"] = "get_hashtag_medias_top"]
                ELSE [sched EXCEPT !.pc["daily"] = "done"]
    /\ Frame("sched")

\* CrawlerScheduler.stop: task.cancel() on both tasks; a finished task
\* ignores it.
Stop ==
    /\ sched' = [sched EXCEPT
                    !.running = FALSE,
                    !.must_cancel =
                        [j \in Jobs |-> sched.pc[j] # "cancelled"],
                    !.cancel_requested =
                        [j \in Jobs |-> @[j] \/ sched.pc[j] # "cancelled"]]
    /\ Frame("sched")

\* CancelledError is raised at the await the task is suspended at. A
\* handler that catches it goes on with the loop; otherwise it leaves the
\* service call, the session is closed without a commit and the loop of
\* the scheduler breaks. A commit under way is either done or not.
Cancelled(j) ==
    /\ sched.must_cancel[j]
    /\ sched.pc[j] # "cancelled"
    /\ IF /\ ExceptionCatches("CancelledError")
          /\ sched.pc[j] \in
                \* the awaits inside the try block of one unit of work
                (IF j = "weekly"
                 THEN {"get_user_info", "calculate_engagement_rate",
                       "sleep"}
                 ELSE {"get_media_info", "get_user_info_by_pk",
                       "_get_by_instagram_pk", "sleep"})
       THEN LET s == [sched EXCEPT !.must_cancel[j] = FALSE]
            IN  sched' = IF j = "weekly" THEN InfluencerFailed(s)
                         ELSE NextMedia(s)
       ELSE \E committed \in BOOLEAN :
              /\ committed => sched.pc[j] = "commit"
              /\ sched' = [sched EXCEPT
                              !.must_cancel[j] = FALSE,
                              !.pc[j] = "cancelled",
                              !.db = IF committed
                                     THEN Committed(@, sched.session[j])
                                     ELSE @,
                              !.discarded[j] =
                                  /\ ~committed
                                  /\ sched.session[j] # CleanSession,
                              !.session[j] = CleanSession]
    /\ Frame("sched")

SchedNext ==
    \/ WeeklyWake
    \/ WeeklySelect
    \/ WeeklyUserInfo
    \/ WeeklyEngagement
    \/ WeeklySleep
    \/ WeeklyCommit
    \/ DailyWake
    \/ DailyFeed
    \/ DailyMediaInfo
    \/ DailyUserInfo
    \/ DailyExisting
    \/ DailySleep
    \/ DailyCommit
    \/ DailySleepHashtag
    \/ DailySleepCategory
    \/ Stop
    \/ \E j \in Jobs : Cancelled(j)

SchedSpec == SchedInit /\ [][SchedNext]_vars

\* C26: once a cancellation of a task was requested the task starts no
\* further candidate or entity, and every row of the table is, at all
\* times, untouched or wholly updated.
C26_CancelStopsCleanly ==
    [][LET \* A row is untouched or carries the columns of whole
           \* updates: the profile columns of one snapshot, and the
           \* engagement rate of the weekly snapshot whenever the profile
           \* columns are of it.
           Whole(row) ==
               /\ row.follower_count = row.last_synced_at
               /\ row.follower_count = <<"weekly">>
                     => row.engagement_rate = <<"weekly">>
               /\ row.engagement_rate # <<"old">>
                     => row.follower_count # <<"old">>
               /\ row.exists = "no" => row.follower_count = <<"old">>
       IN  /\ \A j \in Jobs :
                 sched.cancel_requested[j]
                     => sched'.started[j] = sched.started[j]
           /\ \A r \in Rows : Whole(sched'.db[r])]_vars

\* Both tasks were cancelled in the middle of their work: the daily one
\* after a commit and with unflushed writes, the weekly one with
\* unflushed writes.
C26_Witness ==
    /\ sched.discarded["daily"]
    /\ sched.discarded["weekly"]
    /\ \E r \in Rows : sched.db[r].follower_count # <<"old">>

\* ------------------------------- add_client, remove_client, get_client
Usernames == {"a", "b", "c"}

RosterInit ==
    /\ AtRest("roster")
    /\ roster = RosterLocals

\* add_client: a known username is refused; otherwise the login succeeds
\* and the client is stored, or it fails.
AddClient ==
    /\ roster.ops < MaxOps
    /\ \E username \in Usernames, login_ok \in BOOLEAN :
          roster' =
              IF username \in Range(roster.clients) \/ ~login_ok
              THEN [roster EXCEPT !.last = "False", !.ops = @ + 1]
              ELSE [roster EXCEPT !.clients = Append(@, username),
                                  !.last = "True", !.ops = @ + 1]
    /\ Frame("roster")

\* remove_client
RemoveClient ==
    /\ roster.ops < MaxOps
    /\ \E username \in Usernames :
          roster' =
              IF username \in Range(roster.clients)
              THEN [roster EXCEPT
                       !.clients = SelectSeq(@, LAMBDA u : u # username),
                                  !.last = "True", !.ops = @ + 1]
              ELSE [roster EXCEPT !.last = "False", !.ops = @ + 1]
    /\ Frame("roster")

\* The loop of get_client from its turn `k` on, with the cursor at `index`:
\* the cursor it leaves and how the call ends.
RECURSIVE Probe(_, _, _, _)
Probe(client_list, available, index, k) ==
    IF k > Len(client_list)
    THEN [current_index |-> index, last |-> "NoAvailableClientError"]
    ELSE IF index >= Len(client_list)
    THEN [current_index |-> index, last |-> "IndexError"]
    ELSE IF client_list[index + 1] \in available
    THEN [current_index |-> (index + 1) % Len(client_list),
          last |-> client_list[index + 1]]
    ELSE Probe(client_list, available, (index + 1) % Len(client_list), k + 1)

\* get_client, with any of the accounts available.
RosterGetClient ==
    /\ roster.ops < MaxOps
    /\ \E available \in SUBSET Usernames :
          LET res == IF roster.clients = <<>>
                     THEN [current_index |-> roster.current_index,
                           last |-> "NoAvailableClientError"]
                     ELSE Probe(roster.clients, available,
                                roster.current_index, 1)
          IN  roster' = [roster EXCEPT !.current_index = res.current_index,
                                       !.last = res.last, !.ops = @ + 1]
    /\ Frame("roster")

RosterNext == AddClient \/ RemoveClient \/ RosterGetClient

RosterSpec == RosterInit /\ [][RosterNext]_vars

\* C27: whenever the pool is not empty the cursor is an index of the
\* account list, and get_client never ends in an index error.
C27_CursorValid ==
    /\ roster.clients # <<>> =>
          /\ 0 <= roster.current_index
          /\ roster.current_index < Len(roster.clients)
    /\ roster.last # "IndexError"

\* ---------------------------- apply_to_campaign, select, reject
\* CampaignService.create: selected_influencers is 0.
CampaignInit ==
    /\ AtRest("campaign")
    /\ \E max_influencers \in 1..MaxInfluencers :
          camp = CampaignRow(max_influencers)

\* apply_to_campaign: refused when a participation exists.
ApplyToCampaign ==
    /\ \E i \in Influencers :
          camp' =
              IF camp.participants[i].applied
              THEN [camp EXCEPT !.last = "ValueError"]
              ELSE [camp EXCEPT
                       !.participants[i] = Participation(TRUE, FALSE, "None"),
                       !.last = "apply_to_campaign"]
    /\ Frame("campaign")

\* The select endpoint: 404 without a participation; select_influencer
\* refuses a selected participation and a full campaign.
SelectInfluencer ==
    /\ \E i \in Influencers :
          LET participation == camp.participants[i]
          IN  camp' =
                  IF ~participation.applied
                  THEN [camp EXCEPT !.last = "404"]
                  ELSE IF participation.is_selected
                  THEN [camp EXCEPT !.last = "ValueError"]
                  ELSE IF camp.selected_influencers
                              >= camp.max_influencers
                  THEN [camp EXCEPT !.last = "ValueError"]
                  ELSE [camp EXCEPT
                           !.participants[i].is_selected = TRUE,
                           !.selected_influencers = @ + 1,
                           !.last = "select_influencer"]
    /\ Frame("campaign")

\* The reject endpoint: 404 without a participation; reject_influencer
\* clears is_selected and stores the reason.
RejectInfluencer ==
    /\ \E i \in Influencers :
          camp' =
              IF ~camp.participants[i].applied
              THEN [camp EXCEPT !.last = "404"]
              ELSE [camp EXCEPT
                       !.participants[i] = Participation(TRUE, FALSE, "reason"),
                       !.last = "reject_influencer"]
    /\ Frame("campaign")

CampaignNext == ApplyToCampaign \/ SelectInfluencer \/ RejectInfluencer

CampaignSpec == CampaignInit /\ [][CampaignNext]_vars

\* C30: selected_influencers is the number of participations with
\* is_selected = true, and never exceeds max_influencers.
C30_SelectedCountExact ==
    /\ camp.selected_influencers =
          Cardinality({i \in Influencers : camp.participants[i].is_selected})
    /\ camp.selected_influencers <= camp.max_influencers

====
